---- MODULE Spec2Model ----
(***************************************************************************)
(* Dial-in optimizer of src/ai-engine/main.py: four request handlers over  *)
(* one Optuna RDB storage.  Several handler instances (workers) run        *)
(* against the same storage; every storage call of a handler is one        *)
(* atomic step, consecutive reads of one handler are one step.             *)
(*                                                                         *)
(* Floats are fixed-point hundredths: 8.0 is 800, grind 1.0 is 100.        *)
(* Optuna names the state of a trial handed out by ask RUNNING; the        *)
(* specification calls it PENDING.                                         *)
(***************************************************************************)
EXTENDS Integers, Sequences, FiniteSets, TLC

\* ---------------------------------------------------------------- bounds
MaxTrials == 3          \* trials in the storage, all studies together

\* the handler instances that run concurrently
Procs == {"w1", "w2"}

None == -1              \* Python None for numeric fields

\* ------------------------------------------------------- request inputs
\* an optimization context: bean_id, user_id (<<>> is None), method
Contexts ==
    { [bean_id |-> "b1", user_id |-> <<>>, method |-> "espresso"] }

\* two contexts whose ids hold the separator of the study name
KeyContexts ==
    { [bean_id |-> "b_bean_c", user_id |-> <<"a">>, method |-> "espresso"],
      [bean_id |-> "c", user_id |-> <<"a_bean_b">>, method |-> "espresso"] }

\* contexts without a user id, with an empty one and with a user id
NameContexts ==
    { [bean_id |-> "b1", user_id |-> <<>>, method |-> "espresso"],
      [bean_id |-> "b1", user_id |-> <<"">>, method |-> "espresso"],
      [bean_id |-> "b2", user_id |-> <<>>, method |-> "lungo"],
      [bean_id |-> "b2", user_id |-> <<"u1">>, method |-> "lungo"] }

AllContexts == Contexts \cup KeyContexts \cup NameContexts

Scores == {300, 800}                    \* taste_score, within [0, 1000]
FeedbackGrinds == {None, 1000}          \* ShotData.grind
FeedbackDoses  == {1800}          \* ShotData.dose
FeedbackTimes  == {None}                \* ShotData.time

\* the values the sampler is let to pick, on the grid of the search space
SampleGrinds == {1250}
SampleDoses  == {1410}
SampleTimes  == {2000}

\* --------------------------------------------------------- search space
GrindLow == 100
GrindHigh == 2500
GrindStep == 50
DoseLow == 1400
DoseHigh == 2200
DoseStep == 10
TimeLow == 2000
TimeHigh == 4000
TimeStep == 100

VARIABLES
    studies,    \* the storage: study name -> sequence of trials
    pc,         \* where each handler instance stands
    req,        \* the request it serves
    loc,        \* its local variables (the Trial objects it holds)
    resp,       \* the response it returned
    contexts,   \* the optimization contexts the callers ask about
    reachable,  \* the database answers
    calc,       \* one evaluation of a function: its input and its result
    ml          \* the ML service: its globals, load_models and a request

vars == <<studies, pc, req, loc, resp, contexts, reachable, calc, ml>>

\* --------------------------------------------------------------- helpers
NoParams == [grind |-> None, dose |-> None, time |-> None]

\* the study name without the part for the user
get_study_name_noUser(bean_id, user_id, method) ==
    "bean_" \o bean_id \o "_" \o method

\* get_study_name, lines 112-116; "if user_id" is false for None and for ""
get_study_name(bean_id, user_id, method) ==
    IF user_id # <<>> /\ user_id[1] # ""
    THEN "user_" \o user_id[1] \o "_bean_" \o bean_id \o "_" \o method
    ELSE "bean_" \o bean_id \o "_" \o method

StudyName(r) == get_study_name(r.bean_id, r.user_id, r.method)

StudyNames == { StudyName(c) : c \in AllContexts }

\* numbering from 1 instead of from the count of the trials
NextTrialNumber_fromOne(trials) == Len(trials) + 1

\* the count of the unfinished trials instead of the count of all trials
NextTrialNumber_running(trials) ==
    Cardinality({ i \in 1..Len(trials) : trials[i].state = "RUNNING" })

\* the trial number the storage gives a new trial: the count of the
\* trials of the study, taken under the study's row lock
NextTrialNumber(trials) == Len(trials)

\* study.ask(): a new RUNNING trial without parameters
NewTrial(trials) ==
    [number |-> NextTrialNumber(trials), state |-> "RUNNING", value |-> None,
     params |-> NoParams, user_attrs |-> NoParams]

\* the loop variable used after the loop: the last trial when none matches
FindTrial_last(trials, number) ==
    IF \E i \in 1..Len(trials) : trials[i].number = number
    THEN CHOOSE i \in 1..Len(trials) : trials[i].number = number
    ELSE Len(trials)

\* index in the trial list of the trial with this number, 0 if there is none
\* (the loop "for t in study.trials: if t.number == ...", lines 272-276)
FindTrial(trials, number) ==
    IF \E i \in 1..Len(trials) : trials[i].number = number
    THEN CHOOSE i \in 1..Len(trials) :
            /\ trials[i].number = number
            /\ \A j \in 1..(i-1) : trials[j].number # number
    ELSE 0

CompleteIdx(trials) == { i \in 1..Len(trials) : trials[i].state = "COMPLETE" }

\* study.best_trial with direction="maximize": the storage orders the
\* COMPLETE trials by value and returns the first row; the order among
\* equal values is not specified, so every maximal trial may be returned.
\* The empty set stands for ValueError("No trials are completed yet").
BestTrialIdx(trials) ==
    { i \in CompleteIdx(trials) :
        \A j \in CompleteIdx(trials) : trials[j].value <= trials[i].value }

\* the float handed on as it is
Round1_none(x) == x

\* round(x, 1) on hundredths, half to even
Round1(x) ==
    LET q == x \div 10
        r == x % 10
    IN IF r > 5 \/ (r = 5 /\ q % 2 = 1) THEN (q + 1) * 10 ELSE q * 10

\* dict.get(key, default)
DictGet(d, key, default) == IF d[key] = None THEN default ELSE d[key]

\* ------------------------------------------------------------- responses
NoResp ==
    [code |-> 0, status |-> "none", study_name |-> "", trial_number |-> None,
     best_number |-> None, best_score |-> None, best_parameters |-> NoParams,
     parameters |-> NoParams, total_trials |-> None, score |-> None,
     recent |-> << >>]

NoReq ==
    [op |-> "none", bean_id |-> "", user_id |-> <<>>, method |-> "",
     grind |-> None, dose |-> None, time |-> None, taste_score |-> None,
     trial_number |-> None]

NoLoc == [fb |-> None, trial |-> None, rec |-> NoParams]

\* raise HTTPException(status_code=code)
HttpError(code) == [NoResp EXCEPT !.code = code, !.status = "error"]

NoStudy == [exists |-> FALSE, trials |-> << >>]

NoCalc == [fn |-> "none"]
\* the ML service is not part of the run
NoMl == [lm |-> "none"]

\* the handlers before the first request, the storage without a study
InitHandlers ==
    /\ studies = [n \in StudyNames |-> NoStudy]
    /\ pc = [p \in Procs |-> "idle"]
    /\ req = [p \in Procs |-> NoReq]
    /\ loc = [p \in Procs |-> NoLoc]
    /\ resp = [p \in Procs |-> NoResp]
    /\ reachable = TRUE

Init ==
    /\ InitHandlers
    /\ contexts = Contexts
    /\ calc = NoCalc
    /\ ml = NoMl

Exists(name) == studies[name].exists

RECURSIVE SumTrials(_)
SumTrials(S) ==
    IF S = {} THEN 0
    ELSE LET n == CHOOSE n \in S : TRUE
         IN Len(studies[n].trials) + SumTrials(S \ {n})

\* the storage has room for one more trial
Room == SumTrials(StudyNames) < MaxTrials
Trials(name) == studies[name].trials

SetTrials(name, trials) ==
    studies' = [studies EXCEPT ![name] = [exists |-> TRUE, trials |-> trials]]

Finish(p, r) ==
    /\ resp' = [resp EXCEPT ![p] = r]
    /\ pc' = [pc EXCEPT ![p] = "done"]

Goto(p, label) == pc' = [pc EXCEPT ![p] = label]

\* ------------------------------------------- POST /optimize/next-shot
\* feedback is recorded when both taste_score and grind are given (line 192)
HasFeedback(r) == r.taste_score # None /\ r.grind # None

\* a study created anew whether or not the storage has one of this name
get_or_create_study_anew(name) == << >>

\* get_or_create_study, lines 118-134: the trials of the study of this
\* name, which is created empty when the storage has none
\* (load_if_exists=True)
get_or_create_study(name) == IF Exists(name) THEN Trials(name) ELSE << >>

\* lines 178-189: the request arrives and the study is loaded or created
rns_get_or_create_study(p) ==
    /\ pc[p] = "idle"
    /\ \E c \in contexts, g \in FeedbackGrinds, d \in FeedbackDoses,
          t \in FeedbackTimes, s \in Scores \cup {None} :
        LET r == [op |-> "recommend_next_shot", bean_id |-> c.bean_id,
                  user_id |-> c.user_id, method |-> c.method,
                  grind |-> g, dose |-> d, time |-> t, taste_score |-> s,
                  trial_number |-> None]
        IN /\ req' = [req EXCEPT ![p] = r]
           /\ SetTrials(StudyName(r), get_or_create_study(StudyName(r)))
           /\ Goto(p, IF HasFeedback(r) THEN "rns_feedback_ask" ELSE "rns_ask")
    /\ UNCHANGED <<loc, resp>>

\* lines 197-202: trial = study.ask(), then the three set_user_attr calls;
\* they write attributes of the handler's own trial, which no handler reads
rns_feedback_ask(p) ==
    LET name == StudyName(req[p])
        t == [NewTrial(Trials(name)) EXCEPT !.user_attrs =
                [grind |-> req[p].grind, dose |-> req[p].dose, time |-> req[p].time]]
    IN
    /\ pc[p] = "rns_feedback_ask"
    /\ Room
    /\ SetTrials(name, Append(Trials(name), t))
    /\ loc' = [loc EXCEPT ![p].fb = t.number]
    /\ Goto(p, "rns_feedback_tell")
    /\ UNCHANGED <<req, resp>>

\* the state is set and the value is dropped
TellTrial_noValue(trials, i, value) == [trials EXCEPT ![i].state = "COMPLETE"]

\* study.tell(trial, value): the storage records the value and the state
\* COMPLETE of a RUNNING trial
TellTrial(trials, i, value) ==
    [trials EXCEPT ![i].state = "COMPLETE", ![i].value = value]

\* a storage that lets a finished trial be told again
CanTell_always(trials, i) == TRUE

\* ... and refuses a trial that is already finished
CanTell(trials, i) == trials[i].state = "RUNNING"

\* the feedback is told to the oldest RUNNING trial of the study
rns_feedback_tell_oldest(p) ==
    LET name == StudyName(req[p])
        running == { j \in 1..Len(Trials(name)) : Trials(name)[j].state = "RUNNING" }
    IN
    /\ pc[p] = "rns_feedback_tell"
    /\ IF running # {}
       THEN LET i == CHOOSE j \in running : \A k \in running : j <= k
            IN /\ SetTrials(name, TellTrial(Trials(name), i, req[p].taste_score))
               /\ Goto(p, "rns_ask")
               /\ UNCHANGED resp
       ELSE /\ Finish(p, HttpError(500))
            /\ UNCHANGED studies
    /\ UNCHANGED <<req, loc>>

\* line 205: study.tell(trial, data.taste_score); a refusal is caught at
\* line 248 and answered with 500
rns_feedback_tell(p) ==
    LET name == StudyName(req[p])
        i == FindTrial(Trials(name), loc[p].fb)
    IN
    /\ pc[p] = "rns_feedback_tell"
    /\ IF CanTell(Trials(name), i)
       THEN /\ SetTrials(name, TellTrial(Trials(name), i, req[p].taste_score))
            /\ Goto(p, "rns_ask")
            /\ UNCHANGED resp
       ELSE /\ Finish(p, HttpError(500))
            /\ UNCHANGED studies
    /\ UNCHANGED <<req, loc>>

\* line 210: trial = study.ask()
rns_ask(p) ==
    LET name == StudyName(req[p]) IN
    /\ pc[p] = "rns_ask"
    /\ Room
    /\ SetTrials(name, Append(Trials(name), NewTrial(Trials(name))))
    /\ loc' = [loc EXCEPT ![p].trial = NextTrialNumber(Trials(name))]
    /\ Goto(p, "rns_suggest")
    /\ UNCHANGED <<req, resp>>

\* lines 213-215: the three suggest_float calls store the sampled values as
\* the parameters of the handler's own trial
rns_suggest(p) ==
    LET name == StudyName(req[p])
        i == FindTrial(Trials(name), loc[p].trial)
    IN
    /\ pc[p] = "rns_suggest"
    /\ \E g \in SampleGrinds, d \in SampleDoses, t \in SampleTimes :
        /\ SetTrials(name, [Trials(name) EXCEPT ![i].params =
                [grind |-> g, dose |-> d, time |-> t]])
        /\ loc' = [loc EXCEPT ![p].rec = [grind |-> g, dose |-> d, time |-> t]]
    /\ Goto(p, "rns_respond")
    /\ UNCHANGED <<req, resp>>

\* best_info of lines 217-226 and 352-360 for the best trial at index i
BestInfo(r, trials, i) ==
    [r EXCEPT !.best_number = trials[i].number,
              !.best_score = trials[i].value,
              !.best_parameters = trials[i].params]

\* lines 217-244: study.trials is not empty here, so study.best_trial is
\* evaluated; without a COMPLETE trial it raises ValueError, which line 248
\* turns into 500
rns_respond(p) ==
    LET name == StudyName(req[p])
        trials == Trials(name)
        base == [NoResp EXCEPT !.code = 200, !.status = "ok",
                    !.study_name = name,
                    !.trial_number = loc[p].trial,
                    !.parameters = [grind |-> Round1(loc[p].rec.grind),
                                    dose |-> Round1(loc[p].rec.dose),
                                    time |-> Round1(loc[p].rec.time)],
                    !.total_trials = Len(trials)]
    IN
    /\ pc[p] = "rns_respond"
    /\ IF Len(trials) > 0 /\ BestTrialIdx(trials) = {}
       THEN Finish(p, HttpError(500))
       ELSE IF Len(trials) > 0
            THEN \E i \in BestTrialIdx(trials) : Finish(p, BestInfo(base, trials, i))
            ELSE Finish(p, base)
    /\ UNCHANGED <<studies, req, loc>>

recommend_next_shot(p) ==
    \/ rns_get_or_create_study(p)
    \/ rns_feedback_ask(p)
    \/ rns_feedback_tell(p)
    \/ rns_ask(p)
    \/ rns_suggest(p)
    \/ rns_respond(p)

\* ---------------------------------------------- POST /optimize/report
\* ReportData.trial_number: every number a trial can have, and one more
TrialNumbers == 0..MaxTrials

\* the check of line 285 left out
AlreadyComplete_never(t) == FALSE

\* line 285: trial.state == optuna.trial.TrialState.COMPLETE
AlreadyComplete(t) == t.state = "COMPLETE"

\* lines 256-292: load_study raises KeyError for a name the storage does
\* not have, which line 317 turns into 500; then the trial is looked up in
\* study.trials and its state is read from that copy
rr_load(p) ==
    /\ pc[p] = "idle"
    /\ \E c \in contexts, n \in TrialNumbers, s \in Scores :
        LET r == [NoReq EXCEPT !.op = "report_result", !.bean_id = c.bean_id,
                     !.user_id = c.user_id, !.method = c.method,
                     !.trial_number = n, !.taste_score = s]
            name == StudyName(r)
            trials == Trials(name)
            i == FindTrial(trials, n)
        IN /\ req' = [req EXCEPT ![p] = r]
           /\ IF ~Exists(name) THEN Finish(p, HttpError(500))
              ELSE IF i = 0 THEN Finish(p, HttpError(404))
              ELSE IF AlreadyComplete(trials[i])
                   THEN Finish(p, [NoResp EXCEPT !.code = 200,
                                      !.status = "already_completed",
                                      !.trial_number = n,
                                      !.score = trials[i].value])
                   ELSE /\ Goto(p, "rr_tell")
                        /\ UNCHANGED resp
    /\ UNCHANGED <<studies, loc>>

\* line 295: study.tell(trial, data.taste_score) records the score
rr_tell(p) ==
    LET name == StudyName(req[p])
        i == FindTrial(Trials(name), req[p].trial_number)
    IN
    /\ pc[p] = "rr_tell"
    /\ CanTell(Trials(name), i)
    /\ SetTrials(name, TellTrial(Trials(name), i, req[p].taste_score))
    /\ Goto(p, "rr_respond")
    /\ UNCHANGED <<req, loc, resp>>

\* the score is written before the error is answered
rr_tell_raises_written(p) ==
    LET name == StudyName(req[p])
        i == FindTrial(Trials(name), req[p].trial_number)
    IN
    /\ pc[p] = "rr_tell"
    /\ SetTrials(name, TellTrial(Trials(name), i, req[p].taste_score))
    /\ Finish(p, HttpError(500))
    /\ UNCHANGED <<req, loc>>

\* line 295 raises, lines 317-322 answer 500: study.tell refuses a trial
\* that another request finished since line 273, and it is declared for a
\* Trial or a trial number while line 295 hands it the FrozenTrial of
\* study.trials, which it may refuse as well
rr_tell_raises(p) ==
    /\ pc[p] = "rr_tell"
    /\ Finish(p, HttpError(500))
    /\ UNCHANGED <<studies, req, loc>>

\* lines 299-313
rr_respond(p) ==
    LET name == StudyName(req[p])
        trials == Trials(name)
        base == [NoResp EXCEPT !.code = 200, !.status = "success",
                    !.trial_number = req[p].trial_number,
                    !.score = req[p].taste_score,
                    !.total_trials = Len(trials)]
    IN
    /\ pc[p] = "rr_respond"
    /\ IF BestTrialIdx(trials) = {}
       THEN Finish(p, HttpError(500))
       ELSE \E i \in BestTrialIdx(trials) : Finish(p, BestInfo(base, trials, i))
    /\ UNCHANGED <<studies, req, loc>>

report_result(p) ==
    \/ rr_load(p)
    \/ rr_tell(p)
    \/ rr_tell_raises(p)
    \/ rr_respond(p)

\* --------------------------------------- GET /optimize/status/{bean_id}
RECURSIVE CompleteNumbers(_)
\* the numbers of the COMPLETE trials of a list, in the order of the list
CompleteNumbers(ts) ==
    IF ts = << >> THEN << >>
    ELSE IF Head(ts).state = "COMPLETE"
         THEN <<Head(ts).number>> \o CompleteNumbers(Tail(ts))
         ELSE CompleteNumbers(Tail(ts))

RecentWindow == 5

\* every trial of the study instead of the last five
LastTrials_all(trials) == trials

\* list(study.trials)[-5:]
LastTrials(trials) ==
    SubSeq(trials, IF Len(trials) > RecentWindow
                   THEN Len(trials) - RecentWindow + 1 ELSE 1, Len(trials))

\* lines 325-388, reads only
get_optimization_status(p) ==
    /\ pc[p] = "idle"
    /\ \E c \in contexts :
        LET r == [NoReq EXCEPT !.op = "get_optimization_status",
                     !.bean_id = c.bean_id, !.user_id = c.user_id,
                     !.method = c.method]
            name == StudyName(r)
            trials == Trials(name)
            base == [NoResp EXCEPT !.code = 200, !.status = "active",
                        !.study_name = name,
                        !.total_trials = Len(trials),
                        !.recent = CompleteNumbers(LastTrials(trials))]
        IN /\ req' = [req EXCEPT ![p] = r]
           /\ IF ~Exists(name)
              THEN Finish(p, [NoResp EXCEPT !.code = 200,
                                 !.status = "not_started",
                                 !.study_name = name, !.total_trials = 0])
              ELSE IF Len(trials) > 0 /\ BestTrialIdx(trials) = {}
                   THEN Finish(p, HttpError(500))
              ELSE IF Len(trials) > 0
                   THEN \E i \in BestTrialIdx(trials) :
                            Finish(p, BestInfo(base, trials, i))
                   ELSE Finish(p, base)
    /\ UNCHANGED <<studies, loc>>

\* ----------------------------------------- GET /optimize/best/{bean_id}
\* lines 426-430
BestParameters(params) ==
    [grind |-> Round1(DictGet(params, "grind", 0)),
     dose  |-> Round1(DictGet(params, "dose", 0)),
     time  |-> Round1(DictGet(params, "time", 0))]

\* lines 391-445, reads only
get_best_parameters(p) ==
    /\ pc[p] = "idle"
    /\ \E c \in contexts :
        LET r == [NoReq EXCEPT !.op = "get_best_parameters",
                     !.bean_id = c.bean_id, !.user_id = c.user_id,
                     !.method = c.method]
            name == StudyName(r)
            trials == Trials(name)
        IN /\ req' = [req EXCEPT ![p] = r]
           /\ IF ~Exists(name) THEN Finish(p, HttpError(404))
              ELSE IF Len(trials) = 0 THEN Finish(p, HttpError(404))
              ELSE IF BestTrialIdx(trials) = {} THEN Finish(p, HttpError(500))
              ELSE \E i \in BestTrialIdx(trials) :
                    Finish(p, [NoResp EXCEPT !.code = 200, !.status = "ok",
                                  !.study_name = name,
                                  !.best_number = trials[i].number,
                                  !.best_score = trials[i].value,
                                  !.best_parameters = BestParameters(trials[i].params),
                                  !.total_trials = Len(trials)])
    /\ UNCHANGED <<studies, loc>>

\* the caller takes the response; the instance serves the next request
Return(p) ==
    /\ pc[p] = "done"
    /\ pc' = [pc EXCEPT ![p] = "idle"]
    /\ req' = [req EXCEPT ![p] = NoReq]
    /\ loc' = [loc EXCEPT ![p] = NoLoc]
    /\ resp' = [resp EXCEPT ![p] = NoResp]
    /\ UNCHANGED studies

\* no response is waiting to be taken
Quiet == \A q \in Procs : pc[q] # "done"

\* A response is taken before any other step: taking it touches no storage,
\* so this order loses no behaviour of the storage or of the handlers.
\* the handlers leave the callers' contexts, the database's availability
\* and the function evaluations alone
Handlers == UNCHANGED <<contexts, reachable, calc, ml>>

Next ==
    \E p \in Procs :
        \/ Quiet /\ recommend_next_shot(p) /\ Handlers
        \/ Quiet /\ report_result(p) /\ Handlers
        \/ Quiet /\ get_optimization_status(p) /\ Handlers
        \/ Quiet /\ get_best_parameters(p) /\ Handlers
        \/ Return(p) /\ Handlers

Spec == Init /\ [][Next]_vars

\* one caller at a time: each request is answered before the next is sent
NextAlone ==
    \/ recommend_next_shot("w1") /\ Handlers
    \/ report_result("w1") /\ Handlers
    \/ get_optimization_status("w1") /\ Handlers
    \/ get_best_parameters("w1") /\ Handlers
    \/ Return("w1") /\ Handlers

\* one caller asking about two contexts whose ids hold the separator
InitKeys ==
    InitHandlers /\ contexts = KeyContexts /\ calc = NoCalc /\ ml = NoMl
SpecKeys == InitKeys /\ [][NextAlone]_vars

\* one caller asking with and without a user id
InitNames ==
    InitHandlers /\ contexts = NameContexts /\ calc = NoCalc /\ ml = NoMl
SpecNames == InitNames /\ [][NextAlone]_vars

\* ------------------------------------------- the status of a long study
MaxStatusTrials == 6

\* a trial that was handed out with sampled parameters, RUNNING or reported
StoredTrial(number, state) ==
    [number |-> number, state |-> state,
     value |-> IF state = "COMPLETE" THEN 800 ELSE None,
     params |-> [grind |-> 1250, dose |-> 1410, time |-> 2000],
     user_attrs |-> NoParams]

\* the studies the storage can hold for a context after up to
\* MaxStatusTrials recommendations, some of them reported: the trials are
\* numbered from 0 in the order of the list
StoredStudies ==
    UNION { { [i \in 1..k |-> StoredTrial(i - 1, states[i])] :
                states \in [1..k -> {"RUNNING", "COMPLETE"}] } :
            k \in 0..MaxStatusTrials }

InitStatus ==
    /\ pc = [p \in Procs |-> "idle"]
    /\ req = [p \in Procs |-> NoReq]
    /\ loc = [p \in Procs |-> NoLoc]
    /\ resp = [p \in Procs |-> NoResp]
    /\ reachable = TRUE
    /\ contexts = Contexts
    /\ calc = NoCalc
    /\ ml = NoMl
    /\ \E c \in Contexts, trials \in StoredStudies :
        studies = [n \in StudyNames |->
                    IF n = StudyName(c)
                    THEN [exists |-> TRUE, trials |-> trials] ELSE NoStudy]

\* one caller asks for the status of the study, again and again
NextStatus ==
    \/ get_optimization_status("w1") /\ Handlers
    \/ Return("w1") /\ Handlers

SpecStatus == InitStatus /\ [][NextStatus]_vars

\* ------------------------------------- the database and the process
Operations ==
    {"recommend_next_shot", "report_result", "get_optimization_status",
     "get_best_parameters"}

StorageUnavailable == 503

\* a storage failure answered as a study without trials
get_storage_failure_notStarted(op) ==
    IF op = "get_optimization_status"
    THEN [NoResp EXCEPT !.code = 200, !.status = "not_started",
                        !.total_trials = 0]
    ELSE HttpError(StorageUnavailable)

\* get_storage, lines 105-110: what a handler answers when RDBStorage(...)
\* raises; every handler passes the HTTPException on
get_storage_failure(op) == HttpError(StorageUnavailable)

\* lines 187, 262, 334, 400: the request arrives while the database does
\* not answer, and get_storage, the first call of each handler, raises
get_storage_raises(p) ==
    /\ pc[p] = "idle"
    /\ ~reachable
    /\ \E c \in contexts, op \in Operations :
        /\ req' = [req EXCEPT ![p] =
                      [NoReq EXCEPT !.op = op, !.bean_id = c.bean_id,
                          !.user_id = c.user_id, !.method = c.method]]
        /\ Finish(p, get_storage_failure(op))
    /\ UNCHANGED <<studies, loc>>

\* lines 129-134, 248-253, 317-322: a storage call of a request under way
\* raises because the database stopped answering; the handler answers 500
storage_call_raises(p) ==
    /\ pc[p] \notin {"idle", "done", "stopped"}
    /\ ~reachable
    /\ Finish(p, HttpError(500))
    /\ UNCHANGED <<studies, req, loc>>

\* lines 337-349 and 403-412: the database stops answering between
\* get_storage and load_study; the error is no KeyError, so lines 383-388
\* and 439-445 answer 500
load_study_raises(p) ==
    /\ pc[p] = "idle"
    /\ reachable /\ reachable' = FALSE
    /\ \E c \in contexts,
          op \in {"get_optimization_status", "get_best_parameters"} :
        /\ req' = [req EXCEPT ![p] =
                      [NoReq EXCEPT !.op = op, !.bean_id = c.bean_id,
                          !.user_id = c.user_id, !.method = c.method]]
        /\ Finish(p, HttpError(500))
    /\ UNCHANGED <<studies, loc, contexts, calc, ml>>

\* the database stops answering, and answers again
StorageFails ==
    /\ reachable /\ reachable' = FALSE
    /\ UNCHANGED <<studies, pc, req, loc, resp, contexts, calc, ml>>

StorageRecovers ==
    /\ ~reachable /\ reachable' = TRUE
    /\ UNCHANGED <<studies, pc, req, loc, resp, contexts, calc, ml>>

\* the studies of a storage that lives in the memory of the process
Persisted_inMemory(store) == [n \in DOMAIN store |-> NoStudy]

\* lines 97-104: the storage is RDBStorage(url=DB_URL), the studies and
\* trials are rows of the database; this is what is left of them when the
\* process has ended
Persisted(store) == store

\* the process ends between two requests: what it held in memory is gone
Stop(p) ==
    /\ pc[p] = "idle"
    /\ pc' = [pc EXCEPT ![p] = "stopped"]
    /\ req' = [req EXCEPT ![p] = NoReq]
    /\ loc' = [loc EXCEPT ![p] = NoLoc]
    /\ resp' = [resp EXCEPT ![p] = NoResp]
    /\ studies' = Persisted(studies)
    /\ UNCHANGED <<contexts, reachable, calc, ml>>

\* lines 451-466: the process starts; startup_event tries get_storage and
\* logs a failure, the service starts either way
Start(p) ==
    /\ pc[p] = "stopped"
    /\ pc' = [pc EXCEPT ![p] = "idle"]
    /\ UNCHANGED <<studies, req, loc, resp, contexts, reachable, calc, ml>>

\* one caller, a database that may stop answering and a process that may
\* be restarted
NextService ==
    \/ reachable /\ recommend_next_shot("w1") /\ Handlers
    \/ reachable /\ report_result("w1") /\ Handlers
    \/ reachable /\ get_optimization_status("w1") /\ Handlers
    \/ reachable /\ get_best_parameters("w1") /\ Handlers
    \/ get_storage_raises("w1") /\ Handlers
    \/ storage_call_raises("w1") /\ Handlers
    \/ load_study_raises("w1")
    \/ Return("w1") /\ Handlers
    \/ StorageFails
    \/ StorageRecovers
    \/ Stop("w1")
    \/ Start("w1")

SpecService == Init /\ [][NextService]_vars

\* ------------------------- the recommendation of POST /optimize/next-shot
\* The error of a sampled float against its grid point: far below a
\* hundredth, taken as a hundredth.
FloatError == 1

\* trial.suggest_float(name, low, high, step=step): a point low + k*step of
\* the grid, as a float
suggest_float(low, high, step) ==
    { low + k * step + e :
        k \in 0..((high - low) \div step),
        e \in {-FloatError, 0, FloatError} }

InitRound ==
    /\ InitHandlers
    /\ contexts = Contexts
    /\ ml = NoMl
    /\ calc \in
         { [fn |-> "suggest_float", name |-> "grind", value |-> v] :
             v \in suggest_float(GrindLow, GrindHigh, GrindStep) }
         \cup
         { [fn |-> "suggest_float", name |-> "dose", value |-> v] :
             v \in suggest_float(DoseLow, DoseHigh, DoseStep) }
         \cup
         { [fn |-> "suggest_float", name |-> "time", value |-> v] :
             v \in suggest_float(TimeLow, TimeHigh, TimeStep) }

\* lines 230-236: the sampled value is rounded into the response
recommendation ==
    /\ calc.fn = "suggest_float"
    /\ calc' = [fn |-> "recommendation", name |-> calc.name,
                sampled |-> calc.value, value |-> Round1(calc.value)]
    /\ UNCHANGED <<studies, pc, req, loc, resp, contexts, reachable, ml>>

NextRound == recommendation

SpecRound == InitRound /\ [][NextRound]_vars

\* --------------------------------- ClusteringRecommender.recommend
\* src/ml_service/recommendations/parameter_optimizer.py. Numbers other
\* than counts and qualities are thousandths.
MaxCluster == 3
Unit == 1000
\* float('nan'): what Series.std() gives for fewer than two values
NaN == -1000000

\* the shotQuality values of the historical shots
Qualities == {1, 6, 7, 10}
\* np.linalg.norm(target_scaled - cluster_center)
Distances == {0, 500, 2000, 5000}

RECURSIVE SeqsUpTo(_, _)
\* the sequences over S of length 1..n
SeqsUpTo(S, n) ==
    IF n = 0 THEN {}
    ELSE SeqsUpTo(S, n - 1) \cup [1..n -> S]

\* the shots of the assigned cluster, rows of historical_shots
Clusters ==
    { [i \in DOMAIN qs |-> [shotQuality |-> qs[i]]] :
        qs \in SeqsUpTo(Qualities, MaxCluster) }

\* cluster_shots[cluster_shots['shotQuality'] >= threshold]
AtLeast(shots, threshold) ==
    SelectSeq(shots, LAMBDA shot : shot.shotQuality >= threshold)

\* the first filter without the two relaxations
quality_shots_noRelax(cluster_shots) == AtLeast(cluster_shots, 7)

\* lines 114-125: best_shots
quality_shots(cluster_shots) ==
    IF Len(AtLeast(cluster_shots, 7)) # 0 THEN AtLeast(cluster_shots, 7)
    ELSE IF Len(AtLeast(cluster_shots, 6)) # 0 THEN AtLeast(cluster_shots, 6)
    ELSE cluster_shots

\* float arithmetic and comparison with nan
Minus(a, b) == IF a = NaN \/ b = NaN THEN NaN ELSE a - b
Plus(a, b) == IF a = NaN \/ b = NaN THEN NaN ELSE a + b
Times(k, a) == IF a = NaN THEN NaN ELSE k * a
Over(a, k) == IF a = NaN THEN NaN ELSE a \div k
Less(a, b) == a # NaN /\ b # NaN /\ a < b
\* the builtins min(a, b) and max(a, b): the first argument unless the
\* second is less (greater)
PyMin(a, b) == IF Less(b, a) THEN b ELSE a
PyMax(a, b) == IF Less(a, b) THEN b ELSE a

RECURSIVE SumOf(_, _)
SumOf(shots, power) ==
    IF shots = << >> THEN 0
    ELSE (IF power = 2 THEN Head(shots).shotQuality * Head(shots).shotQuality
          ELSE Head(shots).shotQuality) + SumOf(Tail(shots), power)

RECURSIVE SqrtBetween(_, _, _)
\* the integer square root of x, between lo and hi
SqrtBetween(x, lo, hi) ==
    IF lo = hi THEN lo
    ELSE LET mid == (lo + hi + 1) \div 2
         IN IF mid * mid <= x THEN SqrtBetween(x, mid, hi)
            ELSE SqrtBetween(x, lo, mid - 1)

\* Series.std(): the sample standard deviation (ddof=1), nan for fewer
\* than two values
Std(shots) ==
    LET n == Len(shots)
        num == n * SumOf(shots, 2) - SumOf(shots, 1) * SumOf(shots, 1)
    IN IF n < 2 THEN NaN
       ELSE SqrtBetween((Unit * Unit * num) \div (n * (n - 1)), 0, 10 * Unit)

\* the weighted sum returned as it is
Clamp_none(confidence) == confidence

\* line 222: max(0.0, min(1.0, confidence))
Clamp(confidence) == PyMax(0, PyMin(Unit, confidence))

\* _calculate_confidence, lines 202-222
calculate_confidence(best_shots, all_cluster_shots, distance_from_center) ==
    LET len_all == Len(all_cluster_shots)
        quality_ratio ==
            (Len(best_shots) * Unit) \div (IF len_all > 1 THEN len_all ELSE 1)
        cluster_consistency == Minus(Unit, Over(Std(all_cluster_shots), 10))
        distance_confidence == PyMax(0, Unit - distance_from_center \div 2)
        confidence ==
            Over(Plus(Plus(Times(400, quality_ratio),
                           Times(300, cluster_consistency)),
                      Times(300, distance_confidence)), Unit)
    IN Clamp(confidence)

InitRecommend ==
    /\ InitHandlers
    /\ contexts = Contexts
    /\ ml = NoMl
    /\ calc \in { [fn |-> "predict", cluster_shots |-> c, distance |-> d] :
                    c \in Clusters, d \in Distances }

\* recommend, lines 109-171, for the cluster the target was assigned to
recommend ==
    /\ calc.fn = "predict"
    /\ LET best_shots == quality_shots(calc.cluster_shots) IN
       calc' = [fn |-> "recommend",
                cluster_shots |-> calc.cluster_shots,
                distance |-> calc.distance,
                best_shots |-> best_shots,
                confidence |-> calculate_confidence(best_shots,
                                  calc.cluster_shots, calc.distance),
                clusterSize |-> Len(calc.cluster_shots),
                qualityShotsCount |-> Len(best_shots)]
    /\ UNCHANGED <<studies, pc, req, loc, resp, contexts, reachable, ml>>

NextRecommend == recommend

SpecRecommend == InitRecommend /\ [][NextRecommend]_vars

\* ------------------------------- the parameters of a recommendation
\* lines 127-136 of parameter_optimizer.py, for one numeric and one boolean
\* parameter of parameter_features (lines 45-49). Floats are thousandths.
MaxBest == 3

\* grindSize and usedWDT of a historical shot
ShotParams == [grindSize : {10000, 12000}, usedWDT : BOOLEAN]

\* best_shots: the quality shots, one to MaxBest of them
BestShots == SeqsUpTo(ShotParams, MaxBest)

\* the dtype pandas gives the usedWDT column of historical_shots: bool when
\* every shot of the file has true or false, object when some shot of
\* the file (in best_shots or not) has no value
UsedWDTDtypes == {"bool", "object"}

\* line 131: the dtypes whose columns are averaged
MeanDtypes == {"float64", "int64", "bool"}

\* best_shots[param]
Column(shots, param) == [i \in 1..Len(shots) |-> shots[i][param]]

\* a boolean column as numbers: True is 1.0, False is 0.0
AsNumbers(column) ==
    [i \in 1..Len(column) |-> IF column[i] THEN Unit ELSE 0]

RECURSIVE Sum(_)
Sum(xs) == IF xs = << >> THEN 0 ELSE Head(xs) + Sum(Tail(xs))

\* float(Series.mean())
Mean(xs) == Sum(xs) \div Len(xs)

Count(column, v) == Cardinality({ i \in 1..Len(column) : column[i] = v })

\* Series.mode()[0]: mode() gives the most frequent values sorted, False
\* before True
Mode(column) == IF Count(column, FALSE) >= Count(column, TRUE) THEN FALSE ELSE TRUE

\* a value of recommended_params: a float or a boolean
Float(x) == [type |-> "float", number |-> x, flag |-> FALSE]
Bool(b) == [type |-> "bool", number |-> 0, flag |-> b]

\* lines 128-136: recommended_params
recommended_params(best_shots, dtype) ==
    [grindSize |-> Float(Mean(Column(best_shots, "grindSize"))),
     usedWDT |-> IF dtype \in MeanDtypes
                 THEN Float(Mean(AsNumbers(Column(best_shots, "usedWDT"))))
                 ELSE Bool(Mode(Column(best_shots, "usedWDT")))]

InitAggregate ==
    /\ InitHandlers
    /\ contexts = Contexts
    /\ ml = NoMl
    /\ calc \in { [fn |-> "best_shots", best_shots |-> shots, dtype |-> t] :
                    shots \in BestShots, t \in UsedWDTDtypes }

aggregate ==
    /\ calc.fn = "best_shots"
    /\ calc' = [fn |-> "recommended_params", best_shots |-> calc.best_shots,
                dtype |-> calc.dtype,
                params |-> recommended_params(calc.best_shots, calc.dtype)]
    /\ UNCHANGED <<studies, pc, req, loc, resp, contexts, reachable, ml>>

NextAggregate == aggregate

SpecAggregate == InitAggregate /\ [][NextAggregate]_vars

\* ------------------------------------------- the ML service, app.py
\* src/ml_service/app.py and ClusteringRecommender.fit of
\* src/ml_service/recommendations/parameter_optimizer.py. Taste values are
\* whole numbers here.
MaxShots == 12
MaxFits == 2
MinShots == 10
DefaultTaste == 5

TasteDims == {"sweetness", "acidity", "bitterness", "body"}

\* the targetProfile objects of the requests; None: the key is absent
Profiles ==
    { [sweetness |-> a, acidity |-> b, bitterness |-> c, body |-> d] :
        a \in {None, 0, 1, 5}, b \in {None, 5}, c \in {5, 10, 11},
        d \in {None, 5} }

NoProfile ==
    [sweetness |-> None, acidity |-> None, bitterness |-> None, body |-> None]

NoBody == [kind |-> "none", profile |-> NoProfile]

\* the request bodies: none, one without targetProfile, one with an empty
\* profile, one with a profile
Bodies ==
    {NoBody, [kind |-> "no_profile", profile |-> NoProfile],
     [kind |-> "profile", profile |-> NoProfile]}
    \cup { [kind |-> "profile", profile |-> pr] : pr \in Profiles }

\* a ClusteringRecommender as __init__ leaves it, lines 34-49
NewRecommender ==
    [historical_shots |-> FALSE, scaler |-> FALSE, clusterer |-> FALSE,
     cluster |-> FALSE]

NoAnswer == [code |-> 0, error |-> "none", target |-> NoProfile]

\* the service before load_models is called, lines 46-51
InitMl ==
    /\ InitHandlers
    /\ contexts = Contexts
    /\ calc = NoCalc
    /\ ml \in { [shots |-> n, model_file |-> f, objects |-> << >>,
                  recommender |-> 0, lm |-> "start", self |-> 0,
                  rpc |-> "idle", body |-> NoBody, rself |-> 0,
                  answer |-> NoAnswer] :
                  n \in 0..MaxShots, f \in BOOLEAN }

\* the ai-engine takes no step
Engine == UNCHANGED <<studies, pc, req, loc, resp, contexts, reachable, calc>>

\* line 93: historical_df is not None and len(historical_df) > 10
Sufficient(n) == n > MinShots

\* load_models up to line 95 or 100. Without the model file it returns at
\* line 66 and leaves the global as it is. With it, the global recommender
\* is bound to a new, unfitted ClusteringRecommender when the data
\* suffices (line 95) and to None when not (line 100).
lm_start ==
    /\ ml.lm = "start"
    /\ IF ~ml.model_file
       THEN ml' = [ml EXCEPT !.lm = "serving"]
       ELSE IF Sufficient(ml.shots)
            THEN /\ Len(ml.objects) < MaxFits
                 /\ ml' = [ml EXCEPT
                        !.objects = Append(@, NewRecommender),
                        !.recommender = Len(ml.objects) + 1,
                        !.lm = "fit_shots"]
            ELSE ml' = [ml EXCEPT !.recommender = 0, !.lm = "serving"]
    /\ Engine

\* line 96 reads the global and calls fit; fit line 62:
\* self.historical_shots = shots_df.copy()
fit_shots ==
    /\ ml.lm = "fit_shots"
    /\ ml' = [ml EXCEPT !.self = ml.recommender,
                        !.objects[ml.recommender].historical_shots = TRUE,
                        !.lm = "fit_scaler"]
    /\ Engine

\* fit line 68: self.scaler.fit_transform(taste_profiles)
fit_scaler ==
    /\ ml.lm = "fit_scaler"
    /\ ml' = [ml EXCEPT !.objects[ml.self].scaler = TRUE,
                        !.lm = "fit_clusterer"]
    /\ Engine

\* fit line 71: self.clusterer.fit(taste_profiles_scaled)
fit_clusterer ==
    /\ ml.lm = "fit_clusterer"
    /\ ml' = [ml EXCEPT !.objects[ml.self].clusterer = TRUE,
                        !.lm = "fit_labels"]
    /\ Engine

\* fit line 74: self.historical_shots['cluster'] = self.clusterer.labels_,
\* and load_models returns
fit_labels ==
    /\ ml.lm = "fit_labels"
    /\ ml' = [ml EXCEPT !.objects[ml.self].cluster = TRUE,
                        !.lm = "serving"]
    /\ Engine

load_models ==
    \/ lm_start
    \/ fit_shots
    \/ fit_scaler
    \/ fit_clusterer
    \/ fit_labels

\* load_models is called again while the service runs
reload ==
    /\ ml.lm = "serving"
    /\ Len(ml.objects) < MaxFits
    /\ ml' = [ml EXCEPT !.lm = "start"]
    /\ Engine

\* the request ends with this answer
Answer(body, code, error) ==
    ml' = [ml EXCEPT !.rpc = "done", !.body = body,
                     !.answer = [code |-> code, error |-> error,
                                 target |-> NoProfile]]

\* the check of the required dimensions left out
missing_dims_none(profile) == {}

\* app.py lines 532-533: the required dimensions that are not keys of the
\* profile
missing_dims(profile) == { dim \in TasteDims : profile[dim] = None }

\* app.py lines 542-543, for the keys of the profile: a value below 1 or
\* above 10
invalid_dims(profile) ==
    { dim \in TasteDims :
        profile[dim] # None /\ (profile[dim] < 1 \/ profile[dim] > 10) }

\* POST /recommend, app.py lines 512-548: the global is tested for None,
\* then the body and the profile are validated
rec_validate ==
    /\ ml.lm # "none"
    /\ ml.rpc = "idle"
    /\ \E body \in Bodies :
        IF ml.recommender = 0
        THEN Answer(body, 503, "not_available")
        ELSE IF body.kind = "none"
        THEN Answer(body, 400, "body_required")
        ELSE IF body.kind = "no_profile" \/ body.profile = NoProfile
        THEN Answer(body, 400, "profile_required")
        ELSE IF missing_dims(body.profile) # {}
        THEN Answer(body, 400, "missing_dims")
        ELSE IF invalid_dims(body.profile) # {}
        THEN Answer(body, 400, "invalid_value")
        ELSE ml' = [ml EXCEPT !.rpc = "call", !.body = body]
    /\ Engine

\* app.py line 553 reads the global again and calls its recommend; on None
\* the AttributeError is answered 500 by lines 588-594
rec_call ==
    /\ ml.rpc = "call"
    /\ IF ml.recommender = 0
       THEN Answer(ml.body, 500, "failed")
       ELSE ml' = [ml EXCEPT !.rpc = "fitted", !.rself = ml.recommender]
    /\ Engine

\* recommend lines 89-90: self.historical_shots is None raises ValueError
rec_fitted ==
    /\ ml.rpc = "fitted"
    /\ IF ml.objects[ml.rself].historical_shots
       THEN ml' = [ml EXCEPT !.rpc = "transform"]
       ELSE Answer(ml.body, 500, "failed")
    /\ Engine

\* recommend line 103: self.scaler.transform raises when not fitted
rec_transform ==
    /\ ml.rpc = "transform"
    /\ IF ml.objects[ml.rself].scaler
       THEN ml' = [ml EXCEPT !.rpc = "predict"]
       ELSE Answer(ml.body, 500, "failed")
    /\ Engine

\* recommend line 106: self.clusterer.predict raises when not fitted
rec_predict ==
    /\ ml.rpc = "predict"
    /\ IF ml.objects[ml.rself].clusterer
       THEN ml' = [ml EXCEPT !.rpc = "cluster"]
       ELSE Answer(ml.body, 500, "failed")
    /\ Engine

\* recommend lines 95-100: the target array, 5 for a key that is absent
target_array(profile) ==
    [dim \in TasteDims |->
        IF profile[dim] = None THEN DefaultTaste ELSE profile[dim]]

\* recommend lines 110-112 select the rows by the column 'cluster', a
\* KeyError when fit has not added it; then the recommendation is computed
\* and answered
rec_cluster ==
    /\ ml.rpc = "cluster"
    /\ IF ml.objects[ml.rself].cluster
       THEN ml' = [ml EXCEPT !.rpc = "done",
                      !.answer = [code |-> 200, error |-> "none",
                                  target |-> target_array(ml.body.profile)]]
       ELSE Answer(ml.body, 500, "failed")
    /\ Engine

\* POST /recommend
recommend_endpoint ==
    \/ rec_validate
    \/ rec_call
    \/ rec_fitted
    \/ rec_transform
    \/ rec_predict
    \/ rec_cluster

\* the caller takes the answer
rec_return ==
    /\ ml.rpc = "done"
    /\ ml' = [ml EXCEPT !.rpc = "idle", !.body = NoBody, !.rself = 0,
                        !.answer = NoAnswer]
    /\ Engine

\* app.py lines 657-670: load_models has returned when app.run starts to
\* serve
NextMl ==
    \/ load_models
    \/ ml.lm = "serving" /\ recommend_endpoint
    \/ rec_return

SpecMl == InitMl /\ [][NextMl]_vars

\* load_models called, also again, while requests are served
NextReload ==
    \/ load_models
    \/ reload
    \/ recommend_endpoint
    \/ rec_return

SpecReload == InitMl /\ [][NextReload]_vars

\* =================================================================
\* Properties
\* =================================================================
\* the study a handler instance works on
Study(p) == StudyName(req[p])
Serving(p, op) == req[p].op = op
\* the step taken is the one in which instance p returns its response
Responds(p) == pc[p] # "done" /\ pc'[p] = "done"
\* the step taken is the one in which ReportResult of p loads its study
Reports(p) == pc[p] = "idle" /\ req'[p].op = "report_result"
\* the trial numbers an instance holds
Held(p) == {loc[p].fb, loc[p].trial} \ {None}

\* C1: in every study the trials are numbered 0, 1, ..., n-1 in the order of
\* their creation, whatever requests were served: no number is skipped,
\* repeated or reused.
C1_TrialNumbersContiguous ==
    \A n \in StudyNames :
        \A i \in 1..Len(Trials(n)) : Trials(n)[i].number = i - 1

\* a study with a feedback trial, a trial finished by ReportResult and a
\* third trial
C1_Witness ==
    \E n \in StudyNames :
        /\ Len(Trials(n)) >= 3
        /\ \E i \in 1..Len(Trials(n)) :
            Trials(n)[i].state = "COMPLETE" /\ Trials(n)[i].user_attrs.grind # None
        /\ \E i \in 1..Len(Trials(n)) :
            Trials(n)[i].state = "COMPLETE" /\ Trials(n)[i].params.grind # None

\* C2: two requests for a recommendation that are in flight together on one
\* study never hold the same trial number, and when they are the first two
\* asks of a fresh study (no feedback, two trials) they hold 0 and 1.
C2_ConcurrentAsksDistinct ==
    \A p, q \in Procs :
        (/\ p # q
         /\ Serving(p, "recommend_next_shot")
         /\ Serving(q, "recommend_next_shot")
         /\ Study(p) = Study(q))
        => /\ Held(p) \cap Held(q) = {}
           /\ (/\ loc[p].trial # None /\ loc[q].trial # None
               /\ ~HasFeedback(req[p]) /\ ~HasFeedback(req[q])
               /\ Len(Trials(Study(p))) = 2)
              => {loc[p].trial, loc[q].trial} = {0, 1}

\* both instances asked on the fresh study, the second instance first
C2_Witness ==
    /\ Serving("w1", "recommend_next_shot") /\ Serving("w2", "recommend_next_shot")
    /\ ~HasFeedback(req["w1"]) /\ ~HasFeedback(req["w2"])
    /\ loc["w1"].trial = 1 /\ loc["w2"].trial = 0
    /\ Len(Trials(Study("w1"))) = 2

\* C3: a trial enters its study RUNNING (PENDING) without a score; a
\* COMPLETE trial keeps its state and its score in every later step.
C3_CompleteIsFinal ==
    [][\A n \in StudyNames :
        LET old == studies[n].trials
            new == studies'[n].trials
        IN /\ Len(new) >= Len(old)
           /\ \A i \in 1..Len(new) :
                IF i <= Len(old)
                THEN /\ new[i].number = old[i].number
                     /\ old[i].state = "COMPLETE"
                        => new[i].state = "COMPLETE" /\ new[i].value = old[i].value
                     /\ new[i].state = "COMPLETE" => new[i].value \in Scores
                ELSE new[i].state = "RUNNING" /\ new[i].value = None]_vars

\* a tell is about to reach a trial that another request has completed
C3_Witness ==
    \E p \in Procs :
        /\ pc[p] \in {"rr_tell", "rns_feedback_tell"}
        /\ \E i \in 1..Len(Trials(Study(p))) :
            /\ Trials(Study(p))[i].number =
                (IF pc[p] = "rr_tell" THEN req[p].trial_number ELSE loc[p].fb)
            /\ Trials(Study(p))[i].state = "COMPLETE"

C5_ReportCompleteIsIdempotent ==
    [][\A p \in Procs :
        Reports(p) =>
            \A i \in 1..Len(Trials(StudyName(req'[p]))) :
                LET t == Trials(StudyName(req'[p]))[i] IN
                (t.number = req'[p].trial_number /\ t.state = "COMPLETE")
                => /\ pc'[p] = "done"
                   /\ resp'[p].code = 200
                   /\ resp'[p].status = "already_completed"
                   /\ resp'[p].score = t.value
                   /\ studies' = studies]_vars

\* already_completed for a report that carried another score
C5_Witness ==
    \E p \in Procs :
        /\ pc[p] = "done" /\ Serving(p, "report_result")
        /\ resp[p].status = "already_completed"
        /\ resp[p].score # req[p].taste_score

\* the lowest-numbered trial among the COMPLETE trials of maximal score
LowestBest(trials) ==
    CHOOSE i \in BestTrialIdx(trials) : \A j \in BestTrialIdx(trials) : i <= j

\* the study the responding instance p read
Read(p) == Trials(StudyName(req'[p]))

InSearchSpace(ps) ==
    /\ ps.grind \in GrindLow..GrindHigh /\ (ps.grind - GrindLow) % GrindStep = 0
    /\ ps.dose \in DoseLow..DoseHigh /\ (ps.dose - DoseLow) % DoseStep = 0
    /\ ps.time \in TimeLow..TimeHigh /\ (ps.time - TimeLow) % TimeStep = 0

\* C6: every response that names a best trial names the COMPLETE trial of
\* maximal score and, among several of maximal score, the one with the
\* lowest trial number.
C6_BestIsLowestNumberedMaximum ==
    [][\A p \in Procs :
        (Responds(p) /\ resp'[p].best_number # None)
        => /\ BestTrialIdx(Read(p)) # {}
           /\ resp'[p].best_number = Read(p)[LowestBest(Read(p))].number
           /\ resp'[p].best_score = Read(p)[LowestBest(Read(p))].value]_vars

\* C7: on a study without a COMPLETE trial RequestRecommendation and
\* GetStatus succeed and report no best trial.
C7_NoCompleteMeansNoBest ==
    [][\A p \in Procs :
        (/\ Responds(p)
         /\ req'[p].op \in {"recommend_next_shot", "get_optimization_status"}
         /\ CompleteIdx(Read(p)) = {})
        => resp'[p].code = 200 /\ resp'[p].best_number = None]_vars

\* C8: for a context whose study has no trial, whether the study is absent
\* or created and empty, GetStatus answers not_started with total_trials 0
\* and GetBestParameters answers 404.
C8_ZeroTrialsNotStarted ==
    [][\A p \in Procs :
        (Responds(p) /\ Len(Read(p)) = 0)
        => /\ req'[p].op = "get_optimization_status"
                => /\ resp'[p].code = 200
                   /\ resp'[p].status = "not_started"
                   /\ resp'[p].total_trials = 0
           /\ req'[p].op = "get_best_parameters" => resp'[p].code = 404]_vars

\* C9: GetBestParameters, when it succeeds, returns the parameters of a best
\* COMPLETE trial, inside the search space and never 0; when no COMPLETE
\* trial has parameters it answers 404.
C9_BestParametersNeverZero ==
    [][\A p \in Procs :
        (Responds(p) /\ req'[p].op = "get_best_parameters")
        => /\ resp'[p].code = 200
                => /\ InSearchSpace(resp'[p].best_parameters)
                   /\ \E i \in BestTrialIdx(Read(p)) :
                        /\ Read(p)[i].number = resp'[p].best_number
                        /\ Read(p)[i].params = resp'[p].best_parameters
           /\ (\A i \in CompleteIdx(Read(p)) : Read(p)[i].params = NoParams)
                => resp'[p].code = 404]_vars

\* C10: a request for a recommendation that carries feedback asks a fresh
\* trial for the feedback and completes it with the supplied score before it
\* asks the trial it returns: the feedback trial has the lower number, the
\* request adds two trials to its study, one with each ask and none with
\* any other step, and the best_so_far it returns is no worse than the
\* feedback score.
C10_FeedbackToldBeforeAsk ==
    /\ [](\A p \in Procs :
            (/\ Serving(p, "recommend_next_shot") /\ HasFeedback(req[p])
             /\ loc[p].trial # None)
            => /\ loc[p].fb # None
               /\ loc[p].fb < loc[p].trial
               /\ \E i \in 1..Len(Trials(Study(p))) :
                    /\ Trials(Study(p))[i].number = loc[p].fb
                    /\ Trials(Study(p))[i].state = "COMPLETE"
                    /\ Trials(Study(p))[i].value = req[p].taste_score)
    /\ [][\A p \in Procs :
            (/\ Serving(p, "recommend_next_shot") /\ HasFeedback(req[p])
             /\ pc'[p] # pc[p])
            => /\ Len(studies'[Study(p)].trials) =
                    Len(Trials(Study(p))) +
                        (IF pc[p] \in {"rns_feedback_ask", "rns_ask"} THEN 1 ELSE 0)
               /\ (Responds(p) /\ pc[p] = "rns_respond")
                    => /\ resp'[p].code = 200
                       /\ resp'[p].trial_number = loc[p].trial
                       /\ resp'[p].total_trials >= loc[p].fb + 2
                       /\ resp'[p].best_score >= req[p].taste_score]_vars

\* a second request with feedback has been answered: its feedback trial is
\* not the first trial of the study and its score is the best so far
C10_Witness ==
    \E p \in Procs :
        /\ pc[p] = "done" /\ Serving(p, "recommend_next_shot")
        /\ HasFeedback(req[p])
        /\ resp[p].code = 200
        /\ loc[p].fb >= 1
        /\ resp[p].trial_number = loc[p].fb + 1
        /\ resp[p].best_score = req[p].taste_score

\* the optimization context a request names
Context(r) == [bean_id |-> r.bean_id, user_id |-> r.user_id, method |-> r.method]
\* the step taken is a step of instance p
Steps(p) == pc'[p] # pc[p]

\* C11: a step of a request for one optimization context leaves the study of
\* every other context as it was (its trial list, and with it totalTrials
\* and the best trial): distinct contexts resolve to different study keys.
C11_ContextsIndependent ==
    [][\A p \in Procs : \A c \in contexts :
          (Steps(p) /\ Context(req'[p]) # c)
          => studies'[StudyName(c)] = studies[StudyName(c)]]_vars

\* the study names as the interface states them, written out for the
\* contexts of NameContexts (an empty user id counts as none supplied)
StatedName(c) ==
    CASE c = [bean_id |-> "b1", user_id |-> <<>>, method |-> "espresso"]
            -> "bean_b1_espresso"
      [] c = [bean_id |-> "b1", user_id |-> <<"">>, method |-> "espresso"]
            -> "bean_b1_espresso"
      [] c = [bean_id |-> "b2", user_id |-> <<>>, method |-> "lungo"]
            -> "bean_b2_lungo"
      [] c = [bean_id |-> "b2", user_id |-> <<"u1">>, method |-> "lungo"]
            -> "user_u1_bean_b2_lungo"
      [] OTHER -> ""

\* C12: the study name is "user_{userId}_bean_{beanId}_{method}" when a user
\* id is supplied and "bean_{beanId}_{method}" otherwise, and the four
\* operations use it alike: every step of a request touches no study but the
\* one of that name, every successful recommendation, status and best
\* parameters response carries it, and a successful recommendation or report
\* names a trial of that study.
C12_StudyNameDerived ==
    [][\A p \in Procs :
          (Steps(p) /\ pc'[p] # "idle")
          => LET r == req'[p]
                 key == StatedName(Context(r))
             IN
             /\ \A n \in StudyNames \ {key} : studies'[n] = studies[n]
             /\ resp'[p].study_name \in {"", key}
             /\ (/\ Responds(p) /\ resp'[p].code = 200
                 /\ r.op # "report_result")
                => resp'[p].study_name = key
             /\ (/\ Responds(p) /\ resp'[p].code = 200
                 /\ r.op \in {"recommend_next_shot", "report_result"})
                => FindTrial(studies'[key].trials, resp'[p].trial_number) # 0
      ]_vars

\* the four operations were used with a user id: the best parameters of the
\* user's study are returned, a trial of it having been reported
C12_Witness ==
    \E p \in Procs :
        /\ pc[p] = "done" /\ req[p].op = "get_best_parameters"
        /\ resp[p].code = 200
        /\ resp[p].study_name = "user_u1_bean_b2_lungo"
        /\ \E i \in 1..Len(Trials("user_u1_bean_b2_lungo")) :
              /\ Trials("user_u1_bean_b2_lungo")[i].state = "COMPLETE"
              /\ Trials("user_u1_bean_b2_lungo")[i].params.grind # None

\* C13: two recommendation requests that resolve the same unseen context
\* together work on one study: the study a request resolved stays in the
\* storage, every trial a request in flight holds is a trial of it, and no
\* step removes or replaces a trial of the list or its order.
C13_ResolveSharesOneStudy ==
    /\ [](\A p \in Procs :
            (Serving(p, "recommend_next_shot") /\ pc[p] # "idle")
            => /\ Exists(Study(p))
               /\ \A k \in Held(p) : FindTrial(Trials(Study(p)), k) # 0)
    /\ [][\A n \in StudyNames :
            /\ Exists(n) => Exists(n)'
            /\ Len(Trials(n)') >= Len(Trials(n))
            /\ \A i \in 1..Len(Trials(n)) :
                  Trials(n)'[i].number = Trials(n)[i].number]_vars

\* two requests without feedback resolved the context while it had no trial
\* and both asked: the list holds the two trials they hold
C13_Witness ==
    \E p, q \in Procs :
        /\ p # q /\ Study(p) = Study(q)
        /\ Serving(p, "recommend_next_shot") /\ ~HasFeedback(req[p])
        /\ Serving(q, "recommend_next_shot") /\ ~HasFeedback(req[q])
        /\ pc[p] = "rns_suggest" /\ pc[q] = "rns_suggest"
        /\ Len(Trials(Study(p))) = 2
        /\ Held(p) \cup Held(q) = {0, 1}

\* a request that asks or tells is between its first and its last access to
\* the storage
Mutating(p) ==
    /\ req[p].op \in {"recommend_next_shot", "report_result"}
    /\ pc[p] \notin {"idle", "done"}

\* C14: at most one asking or telling request is in flight on a study at any
\* time: requests for one context are served one after the other.
C14_OneMutationInFlight ==
    \A p, q \in Procs :
        (p # q /\ Mutating(p) /\ Mutating(q)) => Study(p) # Study(q)

\* C15: a recommendation or report request that is answered with an error
\* has persisted nothing: no trial it asked is in the storage and it has
\* told no trial.
C15_ErrorPersistsNothing ==
    [][\A p \in Procs :
          (/\ Responds(p) /\ resp'[p].code >= 400
           /\ req'[p].op \in {"recommend_next_shot", "report_result"})
          => /\ \A k \in Held(p) : FindTrial(Trials(StudyName(req'[p])), k) = 0
             /\ pc[p] # "rr_respond"]_vars

OnGrid(x, low, high, step) == x \in low..high /\ (x - low) % step = 0

\* C18: every parameter of a recommendation is in the search space after
\* the rounding to one decimal: grind on 1.0, 1.5, ..., 25.0, dose on
\* 14.0, 14.1, ..., 22.0 and time on 20, 21, ..., 40.
C18_RecommendationInSearchSpace ==
    calc.fn = "recommendation"
    => /\ calc.name = "grind" => OnGrid(calc.value, 100, 2500, 50)
       /\ calc.name = "dose" => OnGrid(calc.value, 1400, 2200, 10)
       /\ calc.name = "time" => OnGrid(calc.value, 2000, 4000, 100)

\* the sampled dose was the float next above 22.0 and the response holds 22.0
C18_Witness ==
    /\ calc.fn = "recommendation" /\ calc.name = "dose"
    /\ calc.sampled = 2201 /\ calc.value = 2200

\* some shot of the list has at least this quality
Has(shots, threshold) ==
    \E i \in 1..Len(shots) : shots[i].shotQuality >= threshold

\* C19: the quality shots are the shots of the cluster with quality >= 7 if
\* there is one, else those with quality >= 6 if there is one, else all
\* shots of the cluster; for a non-empty cluster they are never empty.
C19_ThreeTierSelection ==
    calc.fn = "recommend"
    => LET all == calc.cluster_shots
           tier == IF Has(all, 7) THEN 7 ELSE IF Has(all, 6) THEN 6 ELSE 0
       IN /\ calc.best_shots = AtLeast(all, tier)
          /\ Len(calc.best_shots) > 0

\* a recommendation from a cluster of two shots, both of quality below 6:
\* both relaxations were taken and the whole cluster is selected
C19_Witness ==
    /\ calc.fn = "recommend"
    /\ ~Has(calc.cluster_shots, 6)
    /\ Len(calc.cluster_shots) = 2
    /\ calc.best_shots = calc.cluster_shots

\* C20: the confidence of every recommendation is a number in [0, 1], also
\* for a cluster of a single shot, and qualityShotsCount <= clusterSize.
C20_ConfidenceInUnitInterval ==
    calc.fn = "recommend"
    => /\ calc.confidence # NaN
       /\ calc.confidence \in 0..Unit
       /\ calc.qualityShotsCount <= calc.clusterSize

\* a recommendation from a cluster of one shot, far from its center
C20_Witness ==
    /\ calc.fn = "recommend"
    /\ calc.clusterSize = 1
    /\ calc.distance = 5000

\* C21: a recommend request is rejected before the recommender is called:
\* with 503 when there is no recommender, with 400 when the target profile
\* lacks one of sweetness, acidity, bitterness, body, and with 400 when a
\* supplied taste value is outside 1..10; a request that is answered with a
\* recommendation supplied all four values and they are the target used.
C21_InvalidRequestRejected ==
    (ml.lm # "none" /\ ml.rpc = "done")
    => LET profile == ml.body.profile
           answer == ml.answer
           lacks == \E dim \in {"sweetness", "acidity", "bitterness", "body"} :
                        profile[dim] = None
           outside == \E dim \in {"sweetness", "acidity", "bitterness", "body"} :
                        profile[dim] # None /\ profile[dim] \notin 1..10
       IN /\ ml.recommender = 0
             => answer.code = 503 /\ answer.error = "not_available"
          /\ (ml.recommender # 0 /\ lacks)
             => /\ answer.code = 400
                /\ answer.error \in
                     {"body_required", "profile_required", "missing_dims"}
          /\ (ml.recommender # 0 /\ ~lacks /\ outside)
             => answer.code = 400 /\ answer.error = "invalid_value"
          /\ answer.code = 200
             => ~lacks /\ ~outside /\ answer.target = profile
          /\ answer.code # 200 => ml.rself = 0

\* a fitted recommender is asked with a profile that lacks acidity and
\* body and rejects it
C21_Witness ==
    /\ ml.lm = "serving" /\ ml.rpc = "done" /\ ml.recommender # 0
    /\ ml.body.profile =
         [sweetness |-> 5, acidity |-> None, bitterness |-> 5, body |-> None]
    /\ ml.answer.error = "missing_dims"

\* the recommender object is fitted: fit has run to its end on it
Fitted(object) ==
    /\ object.historical_shots /\ object.scaler
    /\ object.clusterer /\ object.cluster

\* C22: when load_models has returned, a fitted recommender is available if
\* the historical data hold 10 shots or more (the model file being there),
\* and none is available if they hold fewer than 10.
C22_TenShotsSuffice ==
    ml.lm = "serving"
    => /\ (ml.model_file /\ ml.shots >= 10)
          => ml.recommender # 0 /\ Fitted(ml.objects[ml.recommender])
       /\ ml.shots < 10 => ml.recommender = 0

C24_CompleteTrialsCarryParameters ==
    (\A p \in Procs : pc[p] \in {"idle", "done"}) =>
        \A name \in StudyNames :
            \A i \in CompleteIdx(Trials(name)) :
                /\ Trials(name)[i].params.grind # None
                /\ Trials(name)[i].params.dose # None
                /\ Trials(name)[i].params.time # None

\* C25: of two reports with different scores for one RUNNING trial that run
\* at the same time, one records its score and the other one sees the trial
\* COMPLETE: while the first is between its tell and its response, the
\* second, which has read the trial already, leaves the storage as it is
\* and is answered 200, already_completed, with the score of the first.
C25_ConcurrentReportsCompleteOnce ==
    [][\A p, q \in Procs :
        (/\ p # q
         /\ pc[q] = "rr_respond" /\ pc[p] = "rr_tell" /\ Steps(p)
         /\ Study(p) = Study(q)
         /\ req[p].trial_number = req[q].trial_number
         /\ req[p].taste_score # req[q].taste_score)
        => /\ studies' = studies
           /\ resp'[p].code = 200
           /\ resp'[p].status = "already_completed"
           /\ resp'[p].score = req[q].taste_score]_vars

FeedbackIdx(trials) ==
    { i \in 1..Len(trials) : trials[i].user_attrs # NoParams }

HandedOutIdx(trials) ==
    { i \in 1..Len(trials) : trials[i].user_attrs = NoParams }

C29_FeedbackNeedsScoreAndGrind ==
    [][\A p \in Procs :
        (Steps(p) /\ Serving(p, "recommend_next_shot"))
        => /\ pc[p] = "rns_feedback_ask" <=> (HasFeedback(req[p]) /\ loc[p].fb = None)
           /\ pc'[p] = "rns_suggest"
                => /\ loc[p].fb # None <=> HasFeedback(req[p])
                   /\ HasFeedback(req[p])
                        => \E i \in CompleteIdx(Trials(Study(p))) :
                            /\ Trials(Study(p))[i].number = loc[p].fb
                            /\ Trials(Study(p))[i].user_attrs.time = req[p].time
                   /\ Len(studies'[Study(p)].trials) = Len(Trials(Study(p))) + 1
           /\ (Responds(p) /\ req[p].taste_score # None /\ req[p].grind = None)
                => /\ loc[p].fb = None
                   /\ resp'[p].code = 200]_vars

\* C30: a status response for a study with trials reports total_trials as
\* the count of all trials of the study, RUNNING and COMPLETE, and its
\* recent list holds the numbers of the COMPLETE trials among the five
\* highest-numbered trials, these and no others, in ascending order: at
\* most five, and fewer when one of the five is RUNNING.
C30_RecentFromLastFive ==
    \A p \in Procs :
        (/\ pc[p] = "done" /\ Serving(p, "get_optimization_status")
         /\ resp[p].status = "active")
        => LET trials == Trials(Study(p))
               recent == resp[p].recent
           IN /\ resp[p].total_trials = Len(trials)
              /\ Len(recent) <= 5
              /\ \A i, j \in 1..Len(recent) : i < j => recent[i] < recent[j]
              /\ \A k \in 0..(Len(trials) - 1) :
                    (\E i \in 1..Len(recent) : recent[i] = k)
                    <=> /\ k >= Len(trials) - 5
                        /\ trials[k + 1].state = "COMPLETE"

\* six trials, the oldest COMPLETE and trial 2 RUNNING: the recent list is
\* 1, 3, 4, 5
C30_Witness ==
    /\ pc["w1"] = "done" /\ Serving("w1", "get_optimization_status")
    /\ resp["w1"].total_trials = 6
    /\ Trials(Study("w1"))[1].state = "COMPLETE"
    /\ Trials(Study("w1"))[3].state = "RUNNING"
    /\ resp["w1"].recent = <<1, 3, 4, 5>>

\* the most frequent value of a boolean column, the value of the first shot
\* when both are equally frequent
MostFrequentFirst(column) ==
    IF Count(column, TRUE) > Count(column, FALSE) THEN TRUE
    ELSE IF Count(column, FALSE) > Count(column, TRUE) THEN FALSE
    ELSE column[1]

\* a boolean, or the float that Python holds equal to it (1.0 or 0.0)
BoolOrEqual(b) == {Bool(b), Float(IF b THEN Unit ELSE 0)}

\* C26: the recommended grindSize is the arithmetic mean over the quality
\* shots, and the recommended usedWDT is the value most of the quality shots
\* have, the value of the first of them when true and false are equally
\* frequent.
C26_AggregationByType ==
    calc.fn = "recommended_params"
    => /\ calc.params.grindSize =
            Float(Sum(Column(calc.best_shots, "grindSize")) \div Len(calc.best_shots))
       /\ calc.params.usedWDT \in
            BoolOrEqual(MostFrequentFirst(Column(calc.best_shots, "usedWDT")))

====
